---- MODULE Spec2Model ----
(***************************************************************************)
(* A model of the multi-agent PPO learner of MARL/MAPPO.py, of the         *)
(* training loop of MARL/run_mappo.py that drives it, and of the           *)
(* environment contract of highway_env/envs/lanechange_env.py.             *)
(*                                                                         *)
(* Real numbers (rewards, values, parameters, gamma, tau) are exact        *)
(* rationals <<numerator, denominator>> in lowest terms with a positive    *)
(* denominator; float64 rounding is not modelled.                          *)
(***************************************************************************)
EXTENDS Integers, Sequences, FiniteSets, TLC

\* ------------------------------------------------------------------ bounds
\* Longest reward column given to _discount_reward in SpecDiscount.
MaxLen == 3
\* Most parameters of one network in SpecSoft.
MaxParams == 2
\* Most successive soft updates in SpecSoft.
MaxSoftCalls == 2
\* Most controlled vehicles an environment reset creates.
MaxAgents == 2
\* env.T = duration * policy_frequency, the longest episode.
EnvT == 3
\* MAX_EPISODES of the training loop.
MaxEpisodes == 2
\* Most interact() calls of one run that are followed.
MaxRollouts == 4
MaxStep == 2
MaxFiles == 3
RatioSteps == 10

\* ------------------------------------------------------- rational numbers
Abs(x) == IF x < 0 THEN -x ELSE x

RECURSIVE GCD(_, _)
GCD(a, b) == IF b = 0 THEN a ELSE GCD(b, a % b)

\* The rational n/d in lowest terms, d > 0.
Rat(n, d) ==
    LET g == GCD(Abs(n), Abs(d))
        s == IF d < 0 THEN -1 ELSE 1
    IN  <<(s * n) \div g, (s * d) \div g>>

I2R(n) == <<n, 1>>
Zero == I2R(0)
One == I2R(1)

RAdd(x, y) == Rat(x[1] * y[2] + y[1] * x[2], x[2] * y[2])
RSub(x, y) == Rat(x[1] * y[2] - y[1] * x[2], x[2] * y[2])
RMul(x, y) == Rat(x[1] * y[1], x[2] * y[2])
RDiv(x, y) == Rat(x[1] * y[2], x[2] * y[1])
RLeq(x, y) == x[1] * y[2] <= y[1] * x[2]
RLess(x, y) == x[1] * y[2] < y[1] * x[2]
RMin(x, y) == IF RLeq(x, y) THEN x ELSE y
RMax(x, y) == IF RLeq(x, y) THEN y ELSE x

\* The result slot before any call has filled it.
None == <<>>

\* All sequences over S of length lo..hi.
SeqsOf(S, lo, hi) == UNION {[1..n -> S] : n \in lo..hi}

\* ------------------------------------------- MAPPO._discount_reward
\* MAPPO.py:363 with the mistake of discounting the step's own reward too.
running_add_next_mut(running_add, r, gamma) == RMul(RAdd(running_add, r), gamma)

\* MAPPO.py:363  running_add = running_add * self.reward_gamma + rewards[t]
running_add_next(running_add, r, gamma) == RAdd(RMul(running_add, gamma), r)

\* MAPPO.py:362-364, the loop for t in reversed(range(0, len(rewards))):
\* t (1-based here) runs from len(rewards) down to 1.
RECURSIVE discount_loop(_, _, _, _, _)
discount_loop(rewards, gamma, t, running_add, discounted_r) ==
    IF t = 0 THEN discounted_r
    ELSE LET ra == running_add_next(running_add, rewards[t], gamma)
         IN  discount_loop(rewards, gamma, t - 1, ra,
                           [discounted_r EXCEPT ![t] = ra])

\* MAPPO.py:359-365.  rewards is a float64 column (MAPPO.py:159 divides the
\* collected rewards, which makes the array float), so zeros_like is float
\* and storing running_add does not truncate.
discount_reward(rewards, final_value, gamma) ==
    discount_loop(rewards, gamma, Len(rewards), final_value,
                  [t \in 1..Len(rewards) |-> Zero])

\* Column agent_id of a steps x agents matrix: rewards[:, agent_id].
Column(m, agent_id) == [t \in 1..Len(m) |-> m[t][agent_id]]

\* MAPPO.py:161-162: every agent's column is replaced by its discounted
\* returns, seeded with that agent's final_value.
discount_columns(rewards, final_value, n_agents, gamma) ==
    LET col(a) == discount_reward(Column(rewards, a), final_value[a], gamma)
    IN  [t \in 1..Len(rewards) |-> [a \in 1..n_agents |-> col(a)[t]]]

\* ------------------------------------------- MAPPO._soft_update_target
\* MAPPO.py:371 with the two weights swapped.
soft_update_param_mut(t, s, tau) == RAdd(RMul(tau, t), RMul(RSub(One, tau), s))

\* MAPPO.py:370-371  (1. - self.target_tau) * t.data + self.target_tau * s.data
soft_update_param(t, s, tau) == RAdd(RMul(RSub(One, tau), t), RMul(tau, s))

\* MAPPO.py:368-371: zip(target.parameters(), source.parameters()).
soft_update_target(target, source, tau) ==
    [i \in 1..Len(target) |-> soft_update_param(target[i], source[i], tau)]

\* ------------------------------------------------------------------ state
\* MAPPO.py:189  th.clamp(ratio, lo, hi)
clamp(x, lo, hi) == RMin(RMax(x, lo), hi)

\* MAPPO.py:188-191 with the clamp left out.
surrogate_term_mut(ratio, advantage, clip_param) == RMul(ratio, advantage)

\* MAPPO.py:188-191: one sample's term of the clipped surrogate,
\* th.min(surr1, surr2).
surrogate_term(ratio, advantage, clip_param) ==
    RMin(RMul(ratio, advantage),
         RMul(clamp(ratio, RSub(One, clip_param), RAdd(One, clip_param)),
              advantage))

VARIABLES
    config,     \* the configuration read by run_mappo.py (never assigned again)
    pc,         \* position of the single thread of run_mappo.py
    exc,        \* the exception that ended the run, "" while none
    mappo,      \* the fields of the MAPPO object (self.*)
    heap,       \* parameter tensors of the network objects, by object id
    env,        \* the training environment
    env_eval,   \* the evaluation environment
    rng,        \* state of numpy's global random generator
    frame,      \* locals of the running / last interact() call
    tr,         \* locals of the last train() call
    ev,         \* locals of the running / last evaluation() call
    model_dir,  \* the directory load() reads
    models_out, \* dirs['models'], the directory save() writes
    args,       \* the inputs of the call under study (pure-function specs)
    ret,        \* its result
    calls       \* how many times it has been called

pure_vars == <<args, ret, calls>>
main_vars == <<config, pc, exc, mappo, heap, env, env_eval, rng, frame, tr,
               ev, model_dir, models_out>>
vars == <<main_vars, pure_vars>>

Last(s) == s[Len(s)]

\* -------------------------------------------------- network objects
\* MAPPO.py:73 and 75: the two live network objects (object ids).
actor == 1
critic == 2

\* copy.deepcopy that hands back the object it was given.
deepcopy_mut(obj) == obj

\* copy.deepcopy (MAPPO.py:78-79): a new object.
deepcopy(obj) == obj + 2

actor_target == deepcopy(actor)
critic_target == deepcopy(critic)
Objects == {actor, critic, actor_target, critic_target}

\* The freshly initialised parameters of a network (one tensor each).
InitialParams(obj) == IF obj = actor THEN <<One>> ELSE <<I2R(2)>>

\* One optimizer step on a network's parameters (torch.optim): every
\* parameter moves.
optimizer_step(w) == [i \in 1..Len(w) |-> RAdd(w[i], One)]

\* ActorNetwork.forward on one agent's observation.
ActorForward(w, obs) == RAdd(w[1], I2R(obs))

\* CriticNetwork.forward on one agent's observation and action.
CriticForward(w, obs, act) == RAdd(RMul(w[1], I2R(100)), RAdd(I2R(obs), act))

\* np.random.randn: the next sample of the generator's stream.
Randn(r) == (r % 3) - 1
RngAfter(r, draws) == (r + draws) % 3

\* MAPPO.py:216-229
continuous_action(h, state, n_agents) ==
    [a \in 1..n_agents |-> ActorForward(h[actor], state[a])]

\* MAPPO.py:232-238: noise = 0.5 * randn
exploration_action(h, state, n_agents, r) ==
    [a \in 1..n_agents |->
        RAdd(continuous_action(h, state, n_agents)[a],
             RMul(Rat(1, 2), I2R(Randn(r + a - 1))))]

\* MAPPO.py:241-248: noise = 0.01 * randn
action(h, state, n_agents, r) ==
    [a \in 1..n_agents |->
        RAdd(continuous_action(h, state, n_agents)[a],
             RMul(Rat(1, 100), I2R(Randn(r + a - 1))))]

\* MAPPO.value reading the target critic.
value_mut(h, state, act, n_agents) ==
    [a \in 1..n_agents |-> CriticForward(h[critic_target], state[a], act[a])]

\* MAPPO.py:251-264: self.critic on every agent's slice.
value(h, state, act, n_agents) ==
    [a \in 1..n_agents |-> CriticForward(h[critic], state[a], act[a])]

\* ------------------------------------------------------ environment
\* AbstractEnv.reset(): a new episode with n controlled vehicles; the
\* number may differ from one reset to the next.
\* nan says that the simulation has diverged: the observation holds NaN
\* (its entries are then not meaningful numbers).
EnvReset(n) == [steps |-> 0, crashed |-> FALSE, n |-> n, nan |-> FALSE]
ResetStates == {EnvReset(n) : n \in 1..MaxAgents}

\* The observation: one row per controlled vehicle (lanechange_env.py:176).
Observe(e) == [k \in 1..e.n |-> 10 * k + e.steps]

\* lanechange_env.py:183-188
is_terminal(e) == e.crashed \/ e.steps >= config.T

\* lanechange_env.py:71-139, as a function of the vehicle and the episode.
agent_reward(e, k) == I2R((IF e.crashed THEN 10 ELSE 20) * k)

RECURSIVE RSum(_, _)
RSum(f, n) == IF n = 0 THEN Zero ELSE RAdd(f[n], RSum(f, n - 1))

\* lanechange_env.py:65-69: the mean of the agents' rewards.
global_reward(e) ==
    RDiv(RSum([k \in 1..e.n |-> agent_reward(e, k)], e.n), I2R(e.n))

\* What a policy step may do to the numbers of the simulation: nothing,
\* NaN in a controlled vehicle's position, or NaN in the observation only
\* (a NaN speed, say). Only a run with config.faults diverges, and a
\* diverged simulation stays so until it is reset.
NanOutcomes(e) ==
    IF ~config.faults THEN {"none"}
    ELSE IF e.nan THEN {"position", "observation"}
    ELSE {"none", "position", "observation"}

\* The simulation advances one policy step; crash says whether a
\* controlled vehicle collides during it, nan is the step's NanOutcome.
Simulate(e, crash, nan) ==
    [e EXCEPT !.steps = @ + 1, !.crashed = @ \/ crash,
              !.nan = @ \/ nan # "none"]

\* lanechange_env.py:158-159  if np.isnan(v.position).any(): raise ValueError
position_is_nan(nan) == nan = "position"

\* AbstractEnv.step's part of the info mapping (the environment contract:
\* average_speed, and regional_rewards with one scalar per agent).
BaseStepInfo(e) ==
    [average_speed |-> I2R(20 + e.steps),
     regional_rewards |-> [k \in 1..e.n |-> agent_reward(e, k)]]

\* lanechange_env.py:150-174: the entries step() adds, one per controlled
\* vehicle.
StepInfo(e) ==
    [average_speed |-> BaseStepInfo(e).average_speed,
     regional_rewards |-> BaseStepInfo(e).regional_rewards,
     agents_info |-> [k \in 1..e.n |-> 10 * k + e.steps],
     hdv_info |-> [k \in 1..e.n |-> 10 * k + e.steps],
     agents_rewards |-> [k \in 1..e.n |-> agent_reward(e, k)]]

\* ------------------------------------------------------ replay memory
\* OnPolicyReplayMemory.push: one rollout is appended.
MemoryPush(memory, states, actions, rewards) ==
    Append(memory, [states |-> states, actions |-> actions, rewards |-> rewards])

\* OnPolicyReplayMemory.sample(n): min(n, size) distinct rollouts.
SampleSets(size, n) ==
    {S \in SUBSET (1..size) : Cardinality(S) = IF n < size THEN n ELSE size}

RECURSIVE SetToSeq(_)
SetToSeq(S) ==
    IF S = {} THEN <<>>
    ELSE LET m == CHOOSE x \in S : \A y \in S : x <= y
         IN  <<m>> \o SetToSeq(S \ {m})

RECURSIVE Flatten(_)
Flatten(ss) == IF Len(ss) = 0 THEN <<>> ELSE ss[1] \o Flatten(Tail(ss))

\* to_tensor_var(batch.<field>): the sampled rollouts stacked and laid out
\* flat, one entry per (rollout, step, agent).
FlatEntries(memory, idx, field) ==
    Flatten([j \in 1..Len(idx) |->
        Flatten(IF field = "states" THEN memory[idx[j]].states
                ELSE IF field = "actions" THEN memory[idx[j]].actions
                ELSE memory[idx[j]].rewards)])

\* tensor.view(-1, n_agents, dim): consecutive groups of n_agents entries.
View(flat, n_agents) ==
    [row \in 1..(Len(flat) \div n_agents) |->
        [a \in 1..n_agents |-> flat[(row - 1) * n_agents + a]]]

\* ------------------------------------------------------ checkpoints
\* A file name, given by the pieces load() cuts it into: the first of the
\* '-'-separated tokens of the part before the first '.', the (numeric)
\* tokens after it, and the extension.
FileName(first, nums, ext) == [first |-> first, nums |-> nums, ext |-> ext]
CheckpointName(step) == FileName("checkpoint", <<step>>, "pt")

\* MAPPO.py:406-408: what save() writes.
Checkpoint(step, h, m) ==
    [global_step |-> step,
     model_state_dict |-> h[actor],
     optimizer_state_dict |-> m.actor_optimizer]

\* A directory: whether it exists, whether its path string ends with a
\* separator, and its files with their contents.
Directory(exists, sep, files) == [exists |-> exists, sep |-> sep, files |-> files]
EmptyDir == Directory(TRUE, TRUE, <<>>)

\* str.startswith('checkpoint') on the file name.
StartsWithCheckpoint(name) == name.first \in {"checkpoint", "checkpoints"}

\* MAPPO.py:384  if cur_step > save_step
newer(cur_step, save_step) == cur_step > save_step

\* MAPPO.py:378-386: the scan of os.listdir(model_dir), in listing order;
\* acc is <<save_file, save_step>>.
RECURSIVE scan_listing(_, _)
scan_listing(listing, acc) ==
    IF Len(listing) = 0 THEN acc
    ELSE LET file == listing[1]
             keep == scan_listing(Tail(listing), acc)
         IN  IF ~StartsWithCheckpoint(file) THEN keep
             ELSE IF 1 + Len(file.nums) # 2 THEN keep
             ELSE IF newer(file.nums[1], acc[2])
                  THEN scan_listing(Tail(listing), <<<<file>>, file.nums[1]>>)
                  ELSE keep

\* MAPPO.py:374-388: save_file, as <<>> (None) or <<name>>.
select_save_file(dir, global_step, listing) ==
    IF ~dir.exists THEN <<>>
    ELSE IF global_step = <<>> THEN scan_listing(listing, <<<<>>, 0>>)[1]
    ELSE <<CheckpointName(global_step[1])>>

\* MAPPO.py:389-402: "loaded" (returns True), "missing" (logs, returns
\* False) or "raised" (th.load on a path that names no file).
load_outcome(dir, save_file) ==
    IF save_file = <<>> THEN "missing"
    ELSE IF dir.sep /\ dir.exists /\ save_file[1] \in DOMAIN dir.files
         THEN "loaded" ELSE "raised"

\* The orders os.listdir may return the names in.
Listings(names) ==
    {l \in [1..Cardinality(names) -> names] :
        \A i, j \in 1..Cardinality(names) : i # j => l[i] # l[j]}

\* MAPPO.py:373-402 on the learner: the heap, the learner and the outcome.
LoadInto(h, m, dir, global_step, train_mode, listing) ==
    LET save_file == select_save_file(dir, global_step, listing)
        outcome == load_outcome(dir, save_file)
        checkpoint == dir.files[save_file[1]]
    IN  IF outcome = "loaded"
        THEN [heap |-> [h EXCEPT ![actor] = checkpoint.model_state_dict],
              mappo |-> IF train_mode
                        THEN [m EXCEPT !.actor_optimizer =
                                          checkpoint.optimizer_state_dict]
                        ELSE m,
              outcome |-> outcome, save_file |-> save_file]
        ELSE [heap |-> h, mappo |-> m, outcome |-> outcome,
              save_file |-> save_file]

\* MAPPO.py:404-409
SaveInto(dir, step, h, m) ==
    [dir EXCEPT !.files =
        [n \in DOMAIN dir.files \cup {CheckpointName(step)} |->
            IF n = CheckpointName(step) THEN Checkpoint(step, h, m)
            ELSE dir.files[n]]]

\* ---------------------------------------------------- configuration
Some(x) == <<x>>

\* The settings of one run: MAPPO.__init__'s arguments and run_mappo.py's
\* constants, as read from the config file and the command line.
BaseConfig ==
    [option |-> "train",
     reward_type |-> "global_R",
     reward_scale |-> I2R(20),
     reward_gamma |-> Rat(1, 2),
     roll_out_n_steps |-> 1,
     max_steps |-> None,
     target_update_steps |-> 1,
     target_tau |-> Rat(1, 2),
     batch_size |-> 2,
     MAX_EPISODES |-> MaxEpisodes,
     EPISODES_BEFORE_TRAIN |-> 1,
     EVAL_INTERVAL |-> 2,
     EVAL_EPISODES |-> 1,
     T |-> EnvT,
     checkpoint |-> None,
     model_dir |-> EmptyDir,
     faults |-> FALSE]

\* A model directory left by an earlier run.
StoredCheckpoint(step) ==
    [global_step |-> step,
     model_state_dict |-> <<I2R(10 + step)>>,
     optimizer_state_dict |-> 10 + step]
StoredDir(steps) ==
    Directory(TRUE, TRUE,
              [n \in {CheckpointName(k) : k \in steps} |->
                  StoredCheckpoint(n.nums[1])])

Configs ==
    { BaseConfig,
      [BaseConfig EXCEPT !.reward_type = "regional_R",
                         !.model_dir = StoredDir({1, 2})],
      [BaseConfig EXCEPT !.reward_scale = Zero],
      [BaseConfig EXCEPT !.roll_out_n_steps = EnvT, !.target_tau = One],
      [BaseConfig EXCEPT !.max_steps = Some(2)],
      [BaseConfig EXCEPT !.EPISODES_BEFORE_TRAIN = 0,
                         !.target_update_steps = 2],
      [BaseConfig EXCEPT !.option = "evaluate", !.EVAL_EPISODES = 2,
                         !.model_dir = StoredDir({1, 2})],
      [BaseConfig EXCEPT !.option = "evaluate", !.checkpoint = Some(1),
                         !.model_dir = StoredDir({1, 2})],
      [BaseConfig EXCEPT !.faults = TRUE, !.MAX_EPISODES = 1],
      [BaseConfig EXCEPT !.max_steps = Some(2),
                         !.roll_out_n_steps = EnvT,
                         !.EPISODES_BEFORE_TRAIN = MaxEpisodes + 1,
                         !.EVAL_INTERVAL = MaxEpisodes + 2] }

\* ------------------------------------------------------ construction
\* The locals of interact(); nan records that a step of this call produced
\* NaN.
NoFrame ==
    [states |-> <<>>, actions |-> <<>>, rewards |-> <<>>, done |-> TRUE,
     average_speed |-> Zero, i |-> 0, global_reward |-> Zero,
     info |-> <<>>, final_state |-> <<>>, final_action |-> <<>>,
     final_value |-> <<>>, nan |-> FALSE]

\* n_episodes and soft_update are what the last completed train() call read
\* and decided at MAPPO.py:211, log is what that call did to the networks.
NoTrain ==
    [n_episodes |-> 0, n_agents |-> 0, batch |-> <<>>, states_var |-> <<>>,
     actions_var |-> <<>>, rewards_var |-> <<>>, soft_update |-> FALSE,
     log |-> <<>>]

NoEval ==
    [env |-> "env_eval", eval_episodes |-> 0, i |-> 0, step |-> 0,
     done |-> FALSE, state |-> <<>>, n_agents |-> 0, avg_speed |-> Zero,
     rewards_i |-> <<>>, wait_once |-> TRUE, rewards |-> <<>>,
     steps |-> <<>>, avg_speeds |-> <<>>, reward |-> Zero]

\* MAPPO.py:40  assert traffic_density in [1, 2, 3]
traffic_density_ok(traffic_density) == traffic_density \in {1, 2, 3}

\* MAPPO.py:41 with the assertion left out.
reward_type_ok_mut(reward_type) == TRUE

\* MAPPO.py:41  assert reward_type in ["regional_R", "global_R"]
reward_type_ok(reward_type) == reward_type \in {"regional_R", "global_R"}

\* MAPPO.py:40-99: the learner after construction on environment e.
NewMappo(c, e) ==
    [reward_type |-> c.reward_type,
     env_state |-> Observe(e),
     n_episodes |-> 0,
     n_steps |-> 0,
     n_agents |-> 0,
     episode_done |-> FALSE,
     memory |-> <<>>,
     actor_optimizer |-> 0,
     critic_optimizer |-> 0,
     episode_rewards |-> <<Zero>>,
     average_speed |-> <<Zero>>,
     epoch_steps |-> <<0>>]

\* MAPPO.py:73-79: the targets start as copies of the live networks.
NewHeap ==
    [o \in Objects |->
        IF o = actor_target THEN InitialParams(actor)
        ELSE IF o = critic_target THEN InitialParams(critic)
        ELSE InitialParams(o)]

PureIdle == args = <<>> /\ ret = <<>> /\ calls = 0

\* run_mappo.py:86-133 (train) and 203-237 (evaluate): both environments
\* made, the learner constructed.
Init ==
    /\ config \in Configs
    /\ pc = "load"
    /\ exc = ""
    /\ env \in ResetStates
    /\ env_eval = IF config.option = "train" THEN EnvReset(1) ELSE env
    /\ mappo = NewMappo(config, env)
    /\ heap = NewHeap
    /\ rng = 0
    /\ frame = NoFrame
    /\ tr = NoTrain
    /\ ev = NoEval
    /\ model_dir = config.model_dir
    /\ models_out = EmptyDir
    /\ PureIdle

\* ------------------------------------------------------------- load
\* run_mappo.py:136 (train_mode=True) and 240-241 (train_mode=False).
Load ==
    /\ pc = "load"
    /\ \E listing \in Listings(DOMAIN model_dir.files) :
         LET r == LoadInto(heap, mappo, model_dir,
                           IF config.option = "train" THEN None
                           ELSE config.checkpoint,
                           config.option = "train", listing)
         IN  IF r.outcome = "raised"
             THEN /\ pc' = "raised"
                  /\ exc' = "FileNotFoundError"
                  /\ UNCHANGED <<heap, mappo>>
             ELSE /\ pc' = IF config.option = "train" THEN "loop"
                           ELSE "evaluation"
                  /\ heap' = r.heap
                  /\ mappo' = r.mappo
                  /\ exc' = exc
    /\ UNCHANGED <<config, env, env_eval, rng, frame, tr, ev, model_dir,
                   models_out, pure_vars>>

\* ---------------------------------------------------------- interact
\* MAPPO.py:103 with a strict comparison.
budget_exceeded_mut(m) ==
    config.max_steps # None /\ m.n_steps > config.max_steps[1]

\* MAPPO.py:103  (self.max_steps is not None) and (self.n_steps >= self.max_steps)
budget_exceeded(m) ==
    config.max_steps # None /\ m.n_steps >= config.max_steps[1]

\* MAPPO.py:102-112, entered from the loop test of run_mappo.py:145.
InteractBegin ==
    /\ pc = "loop"
    /\ mappo.n_episodes < config.MAX_EPISODES
    /\ Len(mappo.memory) < MaxRollouts
    /\ \E e \in ResetStates :
         LET env1 == IF budget_exceeded(mappo) THEN e ELSE env
         IN  /\ env' = env1
             /\ mappo' = [mappo EXCEPT
                   !.env_state = IF budget_exceeded(mappo)
                                 THEN Observe(e) ELSE @,
                   !.n_steps = IF budget_exceeded(mappo) THEN 0 ELSE @,
                   !.n_agents = env1.n]
    /\ frame' = NoFrame
    /\ pc' = "rollout"
    /\ UNCHANGED <<config, exc, heap, env_eval, rng, tr, ev, model_dir,
                   models_out, pure_vars>>

\* MAPPO.py:127 that records the scalar once.
select_reward_mut(reward_type, gr, info, n_agents) ==
    IF reward_type = "regional_R" THEN info.regional_rewards
    ELSE <<gr>>

\* MAPPO.py:124-127
select_reward(reward_type, gr, info, n_agents) ==
    IF reward_type = "regional_R" THEN info.regional_rewards
    ELSE [a \in 1..n_agents |-> gr]

\* MAPPO.py:114 and 137-139 without the break on done.
rollout_ends_mut(done, i) == i >= config.roll_out_n_steps

\* MAPPO.py:114 and 137-139: the loop ends on done or after
\* roll_out_n_steps iterations; i counts the iterations made.
rollout_ends(done, i) == done \/ i >= config.roll_out_n_steps

\* MAPPO.py:114-139: one iteration of the rollout loop.
InteractStep ==
    /\ pc = "rollout"
    /\ \E crash \in BOOLEAN, e \in ResetStates, nan \in NanOutcomes(env) :
         LET act == exploration_action(heap, mappo.env_state,
                                       mappo.n_agents, rng)
             env1 == Simulate(env, crash, nan)
             next_state == Observe(env1)
             gr == global_reward(env1)
             done == is_terminal(env1)
             info == StepInfo(env1)
             reward == select_reward(mappo.reward_type, gr, info,
                                     mappo.n_agents)
             last == Len(mappo.episode_rewards)
         IN  IF position_is_nan(nan)
             THEN /\ frame' = [frame EXCEPT
                        !.states = Append(@, mappo.env_state),
                        !.nan = TRUE]
                  /\ mappo' = mappo
                  /\ env' = env1
                  /\ pc' = "raised"
                  /\ exc' = "ValueError"
             ELSE /\ frame' = [frame EXCEPT
                        !.states = Append(@, mappo.env_state),
                        !.actions = Append(@, act),
                        !.rewards = Append(@, reward),
                        !.average_speed = RAdd(@, info.average_speed),
                        !.final_state = next_state,
                        !.done = done,
                        !.global_reward = gr,
                        !.info = info,
                        !.i = @ + 1,
                        !.nan = @ \/ env1.nan]
                  /\ mappo' = [mappo EXCEPT
                        !.episode_rewards[last] = RAdd(@, gr),
                        !.epoch_steps[Len(mappo.epoch_steps)] = @ + 1,
                        !.env_state = IF done THEN Observe(e)
                                      ELSE next_state,
                        !.n_steps = @ + 1]
                  /\ env' = IF done THEN e ELSE env1
                  /\ pc' = IF rollout_ends(done, frame.i + 1)
                           THEN "finish" ELSE "rollout"
                  /\ exc' = exc
    /\ rng' = RngAfter(rng, mappo.n_agents)
    /\ UNCHANGED <<config, heap, env_eval, tr, ev, model_dir,
                   models_out, pure_vars>>

\* MAPPO.py:159  rewards = np.array(rewards) / self.reward_scale
scale_rewards(rewards, reward_scale) ==
    [t \in 1..Len(rewards) |->
        [a \in 1..Len(rewards[t]) |-> RDiv(rewards[t][a], reward_scale)]]

\* MAPPO.py:143-149 without n_episodes += 1.
episode_end_mut(m, f) ==
    [m EXCEPT
        !.episode_done = TRUE,
        !.episode_rewards = Append(@, Zero),
        !.average_speed =
            Append([@ EXCEPT ![Len(@)] =
                       RDiv(f.average_speed,
                            I2R(m.epoch_steps[Len(m.epoch_steps)]))],
                   Zero),
        !.epoch_steps = Append(@, 0)]

\* MAPPO.py:143-149 without average_speed.append(0).
episode_end_noappend_mut(m, f) ==
    [m EXCEPT
        !.n_episodes = @ + 1,
        !.episode_done = TRUE,
        !.episode_rewards = Append(@, Zero),
        !.average_speed =
            [@ EXCEPT ![Len(@)] =
                RDiv(f.average_speed,
                     I2R(m.epoch_steps[Len(m.epoch_steps)]))],
        !.epoch_steps = Append(@, 0)]

\* MAPPO.py:143-149: the episode bookkeeping of a terminated rollout.
episode_end(m, f) ==
    [m EXCEPT
        !.n_episodes = @ + 1,
        !.episode_done = TRUE,
        !.episode_rewards = Append(@, Zero),
        !.average_speed =
            Append([@ EXCEPT ![Len(@)] =
                       RDiv(f.average_speed,
                            I2R(m.epoch_steps[Len(m.epoch_steps)]))],
                   Zero),
        !.epoch_steps = Append(@, 0)]

\* MAPPO.py:141-165: what follows the rollout loop. With reward_scale <= 0
\* rewards is still a list of lists at MAPPO.py:162, and rewards[:, agent_id]
\* raises TypeError.
InteractFinish ==
    /\ pc = "finish"
    /\ LET n == mappo.n_agents
           final_action == action(heap, frame.final_state, n, rng)
           final_value ==
               IF frame.done THEN [a \in 1..n |-> Zero]
               ELSE value(heap, frame.final_state, final_action, n)
           m1 == IF frame.done THEN episode_end(mappo, frame)
                 ELSE [mappo EXCEPT !.episode_done = FALSE]
           scaled == scale_rewards(frame.rewards, config.reward_scale)
           discounted == discount_columns(scaled, final_value, n,
                                          config.reward_gamma)
           f1 == [frame EXCEPT
                    !.final_action = IF frame.done THEN @ ELSE final_action,
                    !.final_value = final_value]
       IN  /\ rng' = IF frame.done THEN rng ELSE RngAfter(rng, n)
           /\ IF RLess(Zero, config.reward_scale)
              THEN /\ frame' = [f1 EXCEPT !.rewards = discounted]
                   /\ mappo' = [m1 EXCEPT !.memory =
                         MemoryPush(@, frame.states, frame.actions,
                                    discounted)]
                   /\ pc' = "after_interact"
                   /\ exc' = exc
              ELSE /\ frame' = f1
                   /\ mappo' = m1
                   /\ pc' = "raised"
                   /\ exc' = "TypeError"
    /\ UNCHANGED <<config, heap, env, env_eval, tr, ev, model_dir,
                   models_out, pure_vars>>

\* ------------------------------------------------------------- train
\* run_mappo.py:147 with a strict comparison.
train_due_mut(m) == m.n_episodes > config.EPISODES_BEFORE_TRAIN

\* run_mappo.py:147  if mappo.n_episodes >= EPISODES_BEFORE_TRAIN
train_due(m) == m.n_episodes >= config.EPISODES_BEFORE_TRAIN

\* run_mappo.py:149
eval_due(m) ==
    m.episode_done /\ (m.n_episodes + 1) % config.EVAL_INTERVAL = 0

\* MAPPO.py:211
soft_update_due(m) ==
    m.n_episodes % config.target_update_steps = 0 /\ m.n_episodes > 0

\* What train() does to the networks is also kept as a log of events, in
\* program order: a forward pass through a network, a step of the
\* optimizer built on it, a soft update of it.
Event(op, obj, agent_id) == [op |-> op, obj |-> obj, agent |-> agent_id]

\* MAPPO.py:177-208 with the baseline taken from the live critic and the
\* critic updated before the actor.
RECURSIVE train_agents_mut(_, _)
train_agents_mut(h, k) ==
    IF k = 0 THEN [heap |-> h, log |-> <<>>]
    ELSE LET r == train_agents_mut(h, k - 1)
             h2 == [r.heap EXCEPT ![critic] = optimizer_step(@)]
         IN  [heap |-> [h2 EXCEPT ![actor] = optimizer_step(@)],
              log |-> r.log \o <<Event("forward", critic, k),
                                 Event("step", critic, k),
                                 Event("forward", actor, k),
                                 Event("forward", actor_target, k),
                                 Event("step", actor, k)>>]

\* MAPPO.py:177-208: for every agent index one step of the actor's
\* optimizer, then one of the critic's; each steps the parameters of the
\* object it was constructed on (MAPPO.py:82-86).
RECURSIVE train_agents(_, _)
train_agents(h, k) ==
    IF k = 0 THEN [heap |-> h, log |-> <<>>]
    ELSE LET r == train_agents(h, k - 1)
             h2 == [r.heap EXCEPT ![actor] = optimizer_step(@)]
         IN  [heap |-> [h2 EXCEPT ![critic] = optimizer_step(@)],
              log |-> r.log \o <<Event("forward", critic_target, k),
                                 Event("forward", actor, k),
                                 Event("forward", actor_target, k),
                                 Event("step", actor, k),
                                 Event("forward", critic, k),
                                 Event("step", critic, k)>>]

\* MAPPO.py:212-213, as events.
soft_update_events ==
    <<Event("soft_update", actor_target, 0),
      Event("soft_update", critic_target, 0)>>

\* MAPPO.py:212-213
soft_update_targets(h) ==
    LET h1 == [h EXCEPT ![actor_target] =
                  soft_update_target(@, h[actor], config.target_tau)]
    IN  [h1 EXCEPT ![critic_target] =
            soft_update_target(@, h1[critic], config.target_tau)]

\* The agent counts of the steps of the sampled rollouts.
BatchAgentCounts(memory, idx) ==
    UNION {{Len(memory[idx[j]].states[t]) :
                t \in 1..Len(memory[idx[j]].states)} : j \in 1..Len(idx)}

\* MAPPO.py:172-175: the three tensors, or the error that building them
\* raises: stacking rows of different widths (ValueError), or a view whose
\* size does not divide (RuntimeError).
batch_error(memory, idx, n_agents) ==
    IF Cardinality(BatchAgentCounts(memory, idx)) > 1 THEN "ValueError"
    ELSE IF Len(FlatEntries(memory, idx, "states")) % n_agents # 0
         THEN "RuntimeError"
         ELSE ""

\* MAPPO.py:168-175, called from run_mappo.py:147-148: the batch is sampled
\* and the three tensors are built with self.n_agents.
TrainSample ==
    /\ pc = "after_interact"
    /\ train_due(mappo)
    /\ \E S \in SampleSets(Len(mappo.memory), config.batch_size) :
         LET idx == SetToSeq(S)
             n == mappo.n_agents
             err == batch_error(mappo.memory, idx, n)
             t1 == [tr EXCEPT !.n_agents = n, !.batch = idx, !.log = <<>>]
         IN  IF err # ""
             THEN /\ tr' = t1
                  /\ pc' = "raised"
                  /\ exc' = err
             ELSE /\ tr' = [t1 EXCEPT
                      !.states_var =
                          View(FlatEntries(mappo.memory, idx, "states"), n),
                      !.actions_var =
                          View(FlatEntries(mappo.memory, idx, "actions"), n),
                      !.rewards_var =
                          View(FlatEntries(mappo.memory, idx, "rewards"), n)]
                  /\ pc' = "train"
                  /\ exc' = exc
    /\ UNCHANGED <<config, mappo, heap, env, env_eval, rng, frame, ev,
                   model_dir, models_out, pure_vars>>

\* MAPPO.py:177-213: the per-agent updates and the target update; the
\* tensors are dropped on return.
TrainUpdate ==
    /\ pc = "train"
    /\ LET r == train_agents(heap, tr.n_agents)
       IN  /\ heap' = IF soft_update_due(mappo)
                       THEN soft_update_targets(r.heap) ELSE r.heap
           /\ tr' = [NoTrain EXCEPT
                        !.n_episodes = mappo.n_episodes,
                        !.n_agents = tr.n_agents,
                        !.soft_update = soft_update_due(mappo),
                        !.log = IF soft_update_due(mappo)
                                THEN r.log \o soft_update_events
                                ELSE r.log]
    /\ mappo' = [mappo EXCEPT !.actor_optimizer = @ + tr.n_agents,
                              !.critic_optimizer = @ + tr.n_agents]
    /\ pc' = IF eval_due(mappo) THEN "evaluation" ELSE "loop"
    /\ UNCHANGED <<config, exc, env, env_eval, rng, frame, ev, model_dir,
                   models_out, pure_vars>>

\* run_mappo.py:147: the warm-up, train() is not called.
SkipTrain ==
    /\ pc = "after_interact"
    /\ ~train_due(mappo)
    /\ pc' = IF eval_due(mappo) THEN "evaluation" ELSE "loop"
    /\ UNCHANGED <<config, exc, mappo, heap, env, env_eval, rng, frame, tr,
                   ev, model_dir, models_out, pure_vars>>

\* -------------------------------------------------------- evaluation
\* Rendering, video capture and the plots of MAPPO.py:347-351 are left out.
EvEnv == IF ev.env = "env" THEN env ELSE env_eval

\* MAPPO.py:267-276, called from run_mappo.py:150 on env_eval and from
\* run_mappo.py:242 on env.
EvalCall ==
    /\ pc = "evaluation"
    /\ ev' = [NoEval EXCEPT
            !.env = IF config.option = "train" THEN "env_eval" ELSE "env",
            !.eval_episodes = config.EVAL_EPISODES]
    /\ pc' = "eval_episode"
    /\ UNCHANGED <<config, exc, mappo, heap, env, env_eval, rng, frame, tr,
                   model_dir, models_out, pure_vars>>

\* MAPPO.py:286-294: during training the reset is given num_CAV = i + 1
\* (i is ev.i, 0-based), otherwise no agent count.
EvalResetStates ==
    IF config.option = "train"
    THEN {EnvReset(IF ev.i + 1 < MaxAgents THEN ev.i + 1 ELSE MaxAgents)}
    ELSE ResetStates

\* MAPPO.py:278-296: the next episode starts with a reset.
EvalEpisodeBegin ==
    /\ pc = "eval_episode"
    /\ ev.i < ev.eval_episodes
    /\ \E e \in EvalResetStates :
         /\ IF ev.env = "env"
            THEN env' = e /\ env_eval' = env_eval
            ELSE env_eval' = e /\ env' = env
         /\ ev' = [ev EXCEPT !.avg_speed = Zero, !.step = 0,
                             !.rewards_i = <<>>, !.done = FALSE,
                             !.state = Observe(e), !.n_agents = e.n]
    /\ pc' = "eval_step"
    /\ UNCHANGED <<config, exc, mappo, heap, rng, frame, tr, model_dir,
                   models_out, pure_vars>>

\* MAPPO.py:332-342 without steps.append(step).
eval_iteration_end_mut(e1) ==
    LET e2 == [e1 EXCEPT !.rewards_i = Append(@, e1.reward)]
    IN  IF e2.done
        THEN [e2 EXCEPT !.rewards = Append(@, e2.rewards_i),
                        !.avg_speeds =
                            Append(@, RDiv(e2.avg_speed, I2R(e2.step))),
                        !.i = @ + 1]
        ELSE e2

\* MAPPO.py:332-342: the end of a loop iteration and, once done, of the
\* episode.
eval_iteration_end(e1) ==
    LET e2 == [e1 EXCEPT !.rewards_i = Append(@, e1.reward)]
    IN  IF e2.done
        THEN [e2 EXCEPT !.rewards = Append(@, e2.rewards_i),
                        !.steps = Append(@, e2.step),
                        !.avg_speeds =
                            Append(@, RDiv(e2.avg_speed, I2R(e2.step))),
                        !.i = @ + 1]
        ELSE e2

\* MAPPO.py:313-335: one iteration of while not done; at step 3 of the first
\* episode that gets there it stops in input().
EvalStep ==
    /\ pc = "eval_step"
    /\ \E crash \in BOOLEAN, nan \in NanOutcomes(EvEnv) :
         LET env1 == Simulate(EvEnv, crash, nan)
             e1 == [ev EXCEPT
                      !.step = @ + 1,
                      !.state = Observe(env1),
                      !.reward = global_reward(env1),
                      !.done = is_terminal(env1),
                      !.avg_speed = RAdd(@, StepInfo(env1).average_speed)]
         IN  /\ IF ev.env = "env"
                THEN env' = env1 /\ env_eval' = env_eval
                ELSE env_eval' = env1 /\ env' = env
             /\ IF position_is_nan(nan)
                THEN /\ ev' = [ev EXCEPT !.step = @ + 1]
                     /\ pc' = "raised"
                     /\ exc' = "ValueError"
                ELSE IF e1.step = 3 /\ ev.wait_once
                THEN ev' = e1 /\ pc' = "eval_input" /\ exc' = exc
                ELSE /\ ev' = eval_iteration_end(e1)
                     /\ pc' = IF e1.done THEN "eval_episode" ELSE "eval_step"
                     /\ exc' = exc
    /\ rng' = RngAfter(rng, ev.n_agents)
    /\ UNCHANGED <<config, mappo, heap, frame, tr, model_dir,
                   models_out, pure_vars>>

\* MAPPO.py:329-330: a line arrives on standard input.
StdinEnter ==
    /\ pc = "eval_input"
    /\ ev' = eval_iteration_end([ev EXCEPT !.wait_once = FALSE])
    /\ pc' = IF ev.done THEN "eval_episode" ELSE "eval_step"
    /\ UNCHANGED <<config, exc, mappo, heap, env, env_eval, rng, frame, tr,
                   model_dir, models_out, pure_vars>>

\* MAPPO.py:329: standard input is at end of file, input() raises.
StdinEOF ==
    /\ pc = "eval_input"
    /\ pc' = "raised"
    /\ exc' = "EOFError"
    /\ UNCHANGED <<config, mappo, heap, env, env_eval, rng, frame, tr, ev,
                   model_dir, models_out, pure_vars>>

\* MAPPO.py:353-356, back to run_mappo.py:151 or 244.
EvalReturn ==
    /\ pc = "eval_episode"
    /\ ev.i >= ev.eval_episodes
    /\ pc' = IF config.option = "train" THEN "save" ELSE "done"
    /\ ev' = NoEval
    /\ UNCHANGED <<config, exc, mappo, heap, env, env_eval, rng, frame, tr,
                   model_dir, models_out, pure_vars>>

\* -------------------------------------------------------------- save
\* run_mappo.py:155  mappo.save(dirs['models'], mappo.n_episodes + 1)
Save ==
    /\ pc = "save"
    /\ models_out' = SaveInto(models_out, mappo.n_episodes + 1, heap, mappo)
    /\ pc' = "loop"
    /\ UNCHANGED <<config, exc, mappo, heap, env, env_eval, rng, frame, tr,
                   ev, model_dir, pure_vars>>

\* run_mappo.py:145 and 161: the loop ends, the last checkpoint is written.
FinalSave ==
    /\ pc = "loop"
    /\ ~(mappo.n_episodes < config.MAX_EPISODES)
    /\ models_out' = SaveInto(models_out, config.MAX_EPISODES + 2, heap, mappo)
    /\ pc' = "done"
    /\ UNCHANGED <<config, exc, mappo, heap, env, env_eval, rng, frame, tr,
                   ev, model_dir, pure_vars>>

Next ==
    \/ Load
    \/ InteractBegin
    \/ InteractStep
    \/ InteractFinish
    \/ TrainSample
    \/ TrainUpdate
    \/ SkipTrain
    \/ EvalCall
    \/ EvalEpisodeBegin
    \/ EvalStep
    \/ StdinEnter
    \/ StdinEOF
    \/ EvalReturn
    \/ Save
    \/ FinalSave

Spec == Init /\ [][Next]_vars

\* The learner's variables while a single function is studied.
MainIdle ==
    /\ config = BaseConfig
    /\ pc = "call"
    /\ exc = ""
    /\ env = EnvReset(1)
    /\ env_eval = EnvReset(1)
    /\ mappo = NewMappo(config, env)
    /\ heap = NewHeap
    /\ rng = 0
    /\ frame = NoFrame
    /\ tr = NoTrain
    /\ ev = NoEval
    /\ model_dir = EmptyDir
    /\ models_out = EmptyDir

\* ============================================================ claims
\* A step of TrainUpdate: a train() call returns.
TrainReturns == pc = "train" /\ pc' # "train"

\* C3 (as claimed): the target update is tied to the episode counter
\* reaching a positive multiple of target_update_steps, so two train() calls
\* that read the same n_episodes never both perform a soft update.
C3_OneUpdatePerCount ==
    [][(TrainReturns /\ tr.soft_update /\ tr'.soft_update)
          => tr'.n_episodes # tr.n_episodes]_vars

\* C4: the targets are separate objects that start equal to the live
\* networks; afterwards a target parameter changes only in a train() call
\* whose n_episodes is a positive multiple of target_update_steps, and then
\* to the soft update of its old value towards the live value; optimizer
\* steps, interact(), evaluation(), load() and save() leave them unchanged.
C4_TargetsOnlySoftUpdated ==
    /\ actor_target \notin {actor, critic, critic_target}
    /\ critic_target \notin {actor, critic}
    /\ heap[actor_target] = heap[actor]
    /\ heap[critic_target] = heap[critic]
    /\ [][/\ ( \/ heap'[actor_target] # heap[actor_target]
               \/ heap'[critic_target] # heap[critic_target] )
             => (pc = "train" /\ mappo.n_episodes > 0
                 /\ mappo.n_episodes % config.target_update_steps = 0)
          /\ (pc = "train" /\ mappo.n_episodes > 0
              /\ mappo.n_episodes % config.target_update_steps = 0)
             => /\ heap'[actor_target] =
                     soft_update_target(heap[actor_target], heap'[actor],
                                        config.target_tau)
                /\ heap'[critic_target] =
                     soft_update_target(heap[critic_target], heap'[critic],
                                        config.target_tau)]_vars

\* Optimizer steps were taken in a train() call that was not due a target
\* update: the live networks moved, the targets kept their initial
\* parameters.
C4_Witness ==
    /\ pc = "loop"
    /\ mappo.critic_optimizer > 0
    /\ ~tr.soft_update
    /\ heap[actor_target] = InitialParams(actor)
    /\ heap[critic_target] = InitialParams(critic)
    /\ heap[actor] # heap[actor_target]
    /\ heap[critic] # heap[critic_target]

\* C5 (as claimed): every interact() call is followed by a train() call.
C5_StrictAlternation ==
    [][pc = "after_interact" => pc' \in {"train", "raised"}]_vars

\* C5 (amended): train() is entered only when an interact() call has just
\* returned, at most once per interact(): it is called exactly when
\* n_episodes >= EPISODES_BEFORE_TRAIN after that interact() and skipped
\* during the warm-up; interact() starts only at the head of the loop, so
\* the two never overlap.
C5_AlternationAfterWarmup ==
    [][/\ pc = "after_interact" =>
            ( pc' \in {"train", "raised"}
              <=> mappo.n_episodes >= config.EPISODES_BEFORE_TRAIN )
       /\ (pc' = "train" /\ pc # "train") => pc = "after_interact"
       /\ (pc' = "after_interact" /\ pc # "after_interact") => pc = "finish"
       /\ (pc' = "rollout" /\ pc # "rollout") => pc = "loop"
       /\ pc = "train" => pc' \in {"loop", "evaluation"}]_vars

\* The warm-up is over: train() is running for the first time although
\* interact() has already been called more than once.
C5_Witness ==
    /\ pc = "train"
    /\ config.EPISODES_BEFORE_TRAIN = 1
    /\ mappo.critic_optimizer = 0
    /\ Len(mappo.memory) >= 2

AgentOf(obs) == obs \div 10

\* C7 (as claimed): train() builds its tensors for every sampled rollout
\* with the agent count that rollout was collected with, also after the
\* count has changed, and never files one agent's data under another index.
C7_RolloutsOwnAgentCount ==
    /\ pc = "raised" => exc \notin {"ValueError", "RuntimeError"}
    /\ pc = "train" =>
         /\ \A j \in 1..Len(tr.batch) :
              \A t \in 1..Len(mappo.memory[tr.batch[j]].states) :
                 Len(mappo.memory[tr.batch[j]].states[t]) = tr.n_agents
         /\ \A row \in 1..Len(tr.states_var) : \A a \in 1..tr.n_agents :
              AgentOf(tr.states_var[row][a]) = a

\* C8 (as claimed): interact() always completes and pushes, for the last
\* step of the rollout, reward / reward_scale + gamma * bootstrap when
\* reward_scale > 0 and reward + gamma * bootstrap when reward_scale <= 0.
C8_ScaledOrSkipped ==
    [][pc = "finish" =>
        /\ pc' = "after_interact"
        /\ Len(mappo'.memory) = Len(mappo.memory) + 1
        /\ \A a \in 1..mappo.n_agents :
             Last(Last(mappo'.memory).rewards)[a] =
               RAdd(IF RLess(Zero, config.reward_scale)
                    THEN RDiv(Last(frame.rewards)[a], config.reward_scale)
                    ELSE Last(frame.rewards)[a],
                    RMul(config.reward_gamma, frame'.final_value[a]))]_vars

\* C9: while a rollout is collected every recorded reward has one scalar per
\* controlled agent; the last one is the global reward repeated n_agents
\* times in mode global_R and info['regional_rewards'] in mode regional_R;
\* the mode is the configured one throughout.
C9_OneRewardPerAgent ==
    /\ mappo.reward_type = config.reward_type
    /\ (pc \in {"rollout", "finish"} /\ frame.i > 0) =>
         /\ Len(frame.rewards) = frame.i
         /\ \A t \in 1..Len(frame.rewards) :
              /\ Len(frame.rewards[t]) = mappo.n_agents
              /\ Len(frame.rewards[t]) = Len(frame.states[t])
         /\ Len(Last(frame.rewards)) = Len(frame.info.agents_info)
         /\ mappo.reward_type = "global_R" =>
              \A a \in 1..mappo.n_agents :
                 Last(frame.rewards)[a] = frame.global_reward
         /\ mappo.reward_type = "regional_R" =>
              Last(frame.rewards) = frame.info.regional_rewards

\* A step with two agents in mode global_R: their rewards 20 and 40 are
\* recorded as the mean, twice.
C9_Witness ==
    /\ pc = "finish"
    /\ mappo.reward_type = "global_R"
    /\ mappo.n_agents = 2
    /\ Last(frame.rewards) = <<I2R(30), I2R(30)>>
    /\ frame.info.agents_rewards = <<I2R(20), I2R(40)>>

\* evaluation() is running, or about to be entered.
InEvaluation == pc \in {"evaluation", "eval_episode", "eval_step", "eval_input"}

\* C14: evaluation() leaves the four networks' parameters, both
\* optimizers, the replay memory, n_episodes, n_steps and the three
\* histories unchanged; called on the separate evaluation environment (the
\* training loop) it leaves the training environment alone; when it returns
\* it has one reward list, one step count and one average speed per
\* evaluated episode.
C14_EvaluationLearnsNothing ==
    /\ [](( pc = "eval_episode" /\ ev.i >= ev.eval_episodes ) =>
            /\ ev.eval_episodes = config.EVAL_EPISODES
            /\ Len(ev.rewards) = ev.eval_episodes
            /\ Len(ev.steps) = ev.eval_episodes
            /\ Len(ev.avg_speeds) = ev.eval_episodes
            /\ \A i \in 1..Len(ev.rewards) : Len(ev.rewards[i]) = ev.steps[i])
    /\ [][InEvaluation =>
            /\ heap' = heap
            /\ mappo'.actor_optimizer = mappo.actor_optimizer
            /\ mappo'.critic_optimizer = mappo.critic_optimizer
            /\ mappo'.memory = mappo.memory
            /\ mappo'.n_episodes = mappo.n_episodes
            /\ mappo'.n_steps = mappo.n_steps
            /\ mappo'.episode_rewards = mappo.episode_rewards
            /\ mappo'.average_speed = mappo.average_speed
            /\ mappo'.epoch_steps = mappo.epoch_steps
            /\ config.option = "train" => env' = env]_vars

\* An evaluation of the training loop is about to return after training
\* steps have been taken: one episode evaluated on env_eval.
C14_Witness ==
    /\ pc = "eval_episode"
    /\ config.option = "train"
    /\ ev.i = 1
    /\ ev.eval_episodes = 1
    /\ Len(ev.steps) = 1
    /\ ev.steps[1] > 1
    /\ mappo.critic_optimizer > 0
    /\ Len(mappo.memory) > 1

\* The rollout an interact() call has pushed, against the call's locals.
PushedRollout(m, f) ==
    LET r == Last(m.memory)
    IN  /\ Len(r.states) = f.i
        /\ Len(r.actions) = f.i
        /\ Len(r.rewards) = f.i
        /\ r.states = f.states
        /\ r.actions = f.actions

RECURSIVE EpisodeSpeedSum(_)
EpisodeSpeedSum(n) ==
    IF n = 0 THEN Zero
    ELSE RAdd(BaseStepInfo([EnvReset(1) EXCEPT !.steps = n]).average_speed,
              EpisodeSpeedSum(n - 1))

\* C17 (as claimed): when an episode ends its average_speed entry is the
\* sum of info['average_speed'] over all steps of the episode divided by
\* the episode's step count, also when the episode spans several
\* interact() calls (stated where no max_steps budget cuts episodes).
C17_EpisodeMeanSpeed ==
    (pc = "after_interact" /\ frame.done /\ config.max_steps = None) =>
        LET k == Len(mappo.average_speed) - 1
            steps == mappo.epoch_steps[k]
        IN  mappo.average_speed[k] =
                RDiv(EpisodeSpeedSum(steps), I2R(steps))

\* C18 (as claimed): whenever the first step of an episode is about to be
\* taken, after a reset at termination or one forced by the max_steps
\* budget, the in-progress entries of episode_rewards and epoch_steps are 0.
C18_CountersZeroAtEpisodeStart ==
    (pc = "rollout" /\ env.steps = 0) =>
        /\ Last(mappo.epoch_steps) = 0
        /\ Last(mappo.episode_rewards) = Zero

\* C19: a rollout that ended on termination has bootstrap value 0 for
\* every agent, increases n_episodes by exactly 1 and leaves the
\* environment reset with env_state its initial observation; no other step
\* (a rollout cut at the horizon, a forced reset, train(), evaluation(),
\* load, save) changes n_episodes.
C19_EpisodeCountedAtTermination ==
    [][/\ (pc = "finish" /\ frame.done) =>
            /\ mappo'.n_episodes = mappo.n_episodes + 1
            /\ frame'.final_value = [a \in 1..mappo.n_agents |-> Zero]
            /\ env' \in ResetStates
            /\ mappo'.env_state = Observe(env')
       /\ mappo'.n_episodes # mappo.n_episodes =>
            (pc = "finish" /\ frame.done)]_vars

\* The second episode has just ended with two agents, after rollouts that
\* were cut at the horizon.
C19_Witness ==
    /\ pc = "after_interact"
    /\ frame.done
    /\ mappo.n_episodes = 2
    /\ mappo.n_agents = 2
    /\ frame.final_value = <<Zero, Zero>>
    /\ Len(mappo.memory) >= 3
    /\ env.steps = 0

\* s keeps every entry of h but the last, and adds at most one.
AppendOnly(h, s) ==
    /\ Len(s) \in {Len(h), Len(h) + 1}
    /\ \A k \in 1..(Len(h) - 1) : s[k] = h[k]

\* C20: outside interact() the three histories have n_episodes + 1
\* entries; every step keeps all their entries but the last and appends at
\* most one.
C20_HistoriesAppendOnly ==
    /\ [](pc \notin {"rollout", "finish"} =>
            /\ Len(mappo.episode_rewards) = mappo.n_episodes + 1
            /\ Len(mappo.average_speed) = mappo.n_episodes + 1
            /\ Len(mappo.epoch_steps) = mappo.n_episodes + 1)
    /\ [][/\ AppendOnly(mappo.episode_rewards, mappo'.episode_rewards)
          /\ AppendOnly(mappo.average_speed, mappo'.average_speed)
          /\ AppendOnly(mappo.epoch_steps, mappo'.epoch_steps)]_vars

\* Two episodes are finalized and a third entry is in progress.
C20_Witness ==
    /\ pc = "after_interact"
    /\ mappo.n_episodes = 2
    /\ Len(mappo.epoch_steps) = 3
    /\ mappo.epoch_steps[1] > 1
    /\ mappo.epoch_steps[2] >= 1
    /\ mappo.average_speed[1] # Zero
    /\ Last(mappo.episode_rewards) = Zero

\* C21: with max_steps configured, a call of interact() that finds
\* n_steps >= max_steps resets the environment and sets n_steps to 0
\* before its first step, so n_steps never exceeds
\* max_steps + roll_out_n_steps - 1; nothing else lowers n_steps, and with
\* max_steps None a call of interact() never resets on entry.
C21_StepBudget ==
    /\ [](config.max_steps # None =>
            /\ mappo.n_steps <=
                 config.max_steps[1] + config.roll_out_n_steps - 1
            /\ pc = "rollout" =>
                 mappo.n_steps - frame.i < config.max_steps[1])
    /\ [][/\ (pc = "loop" /\ pc' = "rollout") =>
               IF config.max_steps # None
                  /\ mappo.n_steps >= config.max_steps[1]
               THEN /\ env' \in ResetStates
                    /\ mappo'.env_state = Observe(env')
                    /\ mappo'.n_steps = 0
                    /\ frame'.i = 0
               ELSE /\ env' = env
                    /\ mappo'.env_state = mappo.env_state
                    /\ mappo'.n_steps = mappo.n_steps
          /\ mappo'.n_steps < mappo.n_steps =>
               (pc = "loop" /\ pc' = "rollout" /\ config.max_steps # None)]_vars

\* A call with horizon EnvT that started one step below the budget of 2
\* has taken n_steps to the bound max_steps + roll_out_n_steps - 1.
C21_Witness ==
    /\ pc = "after_interact"
    /\ config.max_steps = Some(2)
    /\ config.roll_out_n_steps = EnvT
    /\ frame.i = EnvT
    /\ mappo.n_steps = 2 + EnvT - 1

\* The places of the log where event e0 occurs.
Places(log, e0) == {i \in 1..Len(log) : log[i] = e0}

\* The optimizer steps of the log, in order.
StepsOf(log) == SelectSeq(log, LAMBDA e0 : e0.op = "step")

\* C22: a train() call makes, for every agent index of the current agent
\* count in turn, exactly one actor optimizer step followed by exactly one
\* critic optimizer step, 2 * n_agents steps in all; each agent's baseline
\* is a forward pass of the target critic made before that agent's steps
\* (and after the previous agent's); the soft updates, if any, come after
\* every step, and the live critic is never read for the baseline.
C22_OneStepPerAgent ==
    tr.log # <<>> =>
        LET log == tr.log
            n == tr.n_agents
            steps == StepsOf(log)
            place(e0) == CHOOSE i \in Places(log, e0) : TRUE
        IN  /\ n >= 1
            /\ Len(steps) = 2 * n
            /\ \A a \in 1..n :
                 /\ steps[2 * a - 1] = Event("step", actor, a)
                 /\ steps[2 * a] = Event("step", critic, a)
                 /\ Cardinality(Places(log, Event("forward", critic_target, a))) = 1
                 /\ place(Event("forward", critic_target, a))
                      < place(Event("step", actor, a))
                 /\ place(Event("forward", critic, a))
                      > place(Event("step", actor, a))
                 /\ a > 1 =>
                      place(Event("forward", critic_target, a))
                        > place(Event("step", critic, a - 1))
            /\ \A i, j \in 1..Len(log) :
                 (log[i].op = "soft_update" /\ log[j].op # "soft_update")
                    => i > j
            /\ (\E i \in 1..Len(log) : log[i].op = "soft_update")
                 <=> tr.soft_update

\* A train() call with two agents that was due a target update has
\* returned.
C22_Witness ==
    /\ pc = "loop"
    /\ tr.n_agents = 2
    /\ tr.soft_update
    /\ Len(tr.log) = 14
    /\ tr.log[13].op = "soft_update"

\* The steps of evaluation() that the interpreter takes by itself: all of
\* them but the two that need something to happen on standard input
\* (MAPPO.py:329).
EvaluationStep ==
    \/ EvalCall
    \/ EvalEpisodeBegin
    \/ EvalStep
    \/ EvalReturn

\* The run under a scheduler that never stops the interpreter inside
\* evaluation() while it has a step to take; what arrives on standard input,
\* and when, is not the program's to decide, so StdinEnter and StdinEOF get
\* no fairness.
SpecFair == Spec /\ WF_vars(EvaluationStep)

\* The same with a line always arriving on standard input in the end.
SpecFairStdin == SpecFair /\ WF_vars(StdinEnter)

\* C23: an evaluation that was called comes back to its caller (pc save or
\* done), or ends in an exception of the environment, by the program's own
\* steps: it never waits for anything outside the program.
C23_EvaluationCompletes ==
    (pc = "evaluation") ~> (pc \in {"save", "done", "raised"})

\* ------------------------------------------------ SpecDiscount (C1)
RewardSamples == {I2R(1), I2R(2)}
ValueSamples == {Zero, I2R(1)}
GammaSamples == {Rat(1, 2), Rat(99, 100)}
DiscountAgents == 1..2

InitDiscount ==
    /\ \E n \in DiscountAgents :
         args \in [rewards : SeqsOf([1..n -> RewardSamples], 1, MaxLen),
                   final_value : [1..n -> ValueSamples],
                   n_agents : {n},
                   reward_gamma : GammaSamples]
    /\ ret = None
    /\ calls = 0
    /\ MainIdle

\* MAPPO.py:161-162 applied to the collected (scaled) rewards.
CallDiscount ==
    /\ calls = 0
    /\ ret' = discount_columns(args.rewards, args.final_value,
                               args.n_agents, args.reward_gamma)
    /\ calls' = calls + 1
    /\ UNCHANGED <<args, main_vars>>

NextDiscount == CallDiscount
SpecDiscount == InitDiscount /\ [][NextDiscount]_vars

\* C1: for every rollout of length n >= 1, every agent column and every
\* index t, the returned R_t equals rewards[t] + gamma * R_{t+1}, where
\* R_{n+1} is that agent's final_value; and rewards [1,1,1] with gamma 1/2
\* and bootstrap 0 give [7/4, 3/2, 1].
C1_Recurrence ==
    calls > 0 =>
      /\ Len(ret) = Len(args.rewards)
      /\ \A a \in 1..args.n_agents : \A t \in 1..Len(ret) :
            ret[t][a] =
              RAdd(args.rewards[t][a],
                   RMul(args.reward_gamma,
                        IF t = Len(ret) THEN args.final_value[a]
                        ELSE ret[t + 1][a]))
      /\ \A a \in 1..args.n_agents :
            ( /\ Column(args.rewards, a) = <<One, One, One>>
              /\ args.reward_gamma = Rat(1, 2)
              /\ args.final_value[a] = Zero )
            => Column(ret, a) = <<Rat(7, 4), Rat(3, 2), One>>

\* The spec's scenario has been computed, next to a second agent whose
\* column differs.
C1_Witness ==
    /\ calls > 0
    /\ args.n_agents = 2
    /\ Column(args.rewards, 1) = <<One, One, One>>
    /\ Column(args.rewards, 2) # Column(args.rewards, 1)
    /\ args.reward_gamma = Rat(1, 2)
    /\ args.final_value[1] = Zero
    /\ Column(ret, 1) = <<Rat(7, 4), Rat(3, 2), One>>

\* ------------------------------------------------ SpecSoft (C2)
ParamSamples == {Zero, One, I2R(2)}
TauSamples == {Zero, Rat(1, 4), One}

\* ret holds the target network's parameters, args.source the live ones.
InitSoft ==
    /\ \E n \in 1..MaxParams :
         args \in [target : [1..n -> ParamSamples],
                   source : [1..n -> ParamSamples],
                   target_tau : TauSamples]
    /\ ret = args.target
    /\ calls = 0
    /\ MainIdle

\* MAPPO.py:368-371, one call of _soft_update_target(target, source).
CallSoftUpdate ==
    /\ calls < MaxSoftCalls
    /\ ret' = soft_update_target(ret, args.source, args.target_tau)
    /\ calls' = calls + 1
    /\ UNCHANGED <<args, main_vars>>

NextSoft == CallSoftUpdate
SpecSoft == InitSoft /\ [][NextSoft]_vars

\* C2: one soft update moves every target parameter by tau times its
\* distance to the live parameter (new = (1 - tau) * old + tau * live), so
\* tau = 0 leaves the target unchanged, tau = 1 makes it equal to the live
\* network, and from target 0, live 1, tau 1/4 two updates give 1/4 and
\* then 7/16.
C2_SoftUpdate ==
    [][calls' = calls + 1 =>
        /\ Len(ret') = Len(ret)
        /\ \A i \in 1..Len(ret) :
             /\ RSub(ret'[i], ret[i]) =
                  RMul(args.target_tau, RSub(args.source[i], ret[i]))
             /\ RLeq(RMin(ret[i], args.source[i]), ret'[i])
             /\ RLeq(ret'[i], RMax(ret[i], args.source[i]))
             /\ (args.source[i] = One /\ args.target_tau = Rat(1, 4)) =>
                  /\ ret[i] = Zero => ret'[i] = Rat(1, 4)
                  /\ ret[i] = Rat(1, 4) => ret'[i] = Rat(7, 16)
        /\ args.target_tau = Zero => ret' = ret
        /\ args.target_tau = One => ret' = args.source]_vars

\* Two successive updates of the spec's scenario have run, beside a
\* parameter that started away from 0.
C2_Witness ==
    /\ calls = 2
    /\ Len(ret) = 2
    /\ args.target = <<Zero, I2R(2)>>
    /\ args.source = <<One, One>>
    /\ args.target_tau = Rat(1, 4)
    /\ ret[1] = Rat(7, 16)

\* ------------------------------------------------ SpecLoad (C10)
\* File names a model directory may hold: checkpoints of steps 0..MaxStep,
\* a file that is not a checkpoint, and a checkpoint name of three tokens.
LoadNames ==
    {CheckpointName(k) : k \in 0..MaxStep}
        \cup {FileName("events", <<>>, "log"),
              FileName("checkpoint", <<1, 2>>, "pt")}

LoadFiles(names) ==
    [n \in names |-> StoredCheckpoint(IF n.nums = <<>> THEN 0 ELSE n.nums[1])]

LoadDirs ==
    {Directory(TRUE, sep, LoadFiles(names)) :
        sep \in BOOLEAN,
        names \in {S \in SUBSET LoadNames : Cardinality(S) <= MaxFiles}}
        \cup {Directory(FALSE, TRUE, <<>>)}

InitLoad ==
    /\ args \in [model_dir : LoadDirs,
                 global_step : {None} \cup {Some(k) : k \in 0..MaxStep},
                 train_mode : BOOLEAN]
    /\ ret = None
    /\ calls = 0
    /\ MainIdle

\* MAPPO.py:373-402, one call of load(model_dir, global_step, train_mode);
\* ret holds what the call returned (or that it raised) and the file chosen.
CallLoad ==
    /\ calls = 0
    /\ \E listing \in Listings(DOMAIN args.model_dir.files) :
         LET r == LoadInto(heap, mappo, args.model_dir, args.global_step,
                           args.train_mode, listing)
         IN  /\ heap' = r.heap
             /\ mappo' = r.mappo
             /\ ret' = [outcome |-> r.outcome, save_file |-> r.save_file]
    /\ calls' = 1
    /\ UNCHANGED <<args, config, pc, exc, env, env_eval, rng, frame, tr, ev,
                   model_dir, models_out>>

NextLoad == CallLoad
SpecLoad == InitLoad /\ [][NextLoad]_vars

\* The steps of the files named checkpoint-<n>.<ext> in a directory.
CheckpointSteps(dir) ==
    {n.nums[1] : n \in {f \in DOMAIN dir.files :
                          f.first = "checkpoint" /\ Len(f.nums) = 1}}

SetMax(S) == CHOOSE x \in S : \A y \in S : y <= x

\* C10 (as claimed): load(model_dir) without a step, on a directory that
\* holds checkpoints of a non-empty set of steps n >= 0, returns True
\* having loaded the checkpoint of the highest step: the actor always, the
\* optimizer only in train mode.
C10_LoadsHighestStep ==
    ( /\ calls = 1
      /\ args.global_step = None
      /\ args.model_dir.exists
      /\ args.model_dir.sep
      /\ CheckpointSteps(args.model_dir) # {} ) =>
        LET latest == SetMax(CheckpointSteps(args.model_dir))
        IN  /\ ret.outcome = "loaded"
            /\ ret.save_file = <<CheckpointName(latest)>>
            /\ heap[actor] = StoredCheckpoint(latest).model_state_dict
            /\ mappo.actor_optimizer =
                 IF args.train_mode
                 THEN StoredCheckpoint(latest).optimizer_state_dict
                 ELSE 0

\* Whether load(dir, global_step) has a checkpoint to find: without a step
\* any file named checkpoint-<n>.<ext>, with a step the file of that step.
MatchingCheckpoint(dir, global_step) ==
    /\ dir.exists
    /\ IF global_step = None THEN CheckpointSteps(dir) # {}
       ELSE CheckpointName(global_step[1]) \in DOMAIN dir.files

\* C11 (as claimed): whenever no matching checkpoint exists (directory
\* missing, no checkpoint file in it, or an explicit global_step whose file
\* is absent) load() returns False without raising and leaves the actor's
\* parameters and the optimizer state unchanged.
C11_MissingIsNonFatal ==
    (calls = 1 /\ ~MatchingCheckpoint(args.model_dir, args.global_step)) =>
        /\ ret.outcome = "missing"
        /\ heap = NewHeap
        /\ mappo = NewMappo(config, env)

\* C12 (as claimed): a step of the rollout that produces NaN, in an
\* observation or in a controlled vehicle's position, aborts interact()
\* with an error: no further step, nothing pushed, the learner untouched.
C12_NaNAbortsRollout ==
    [][(pc = "rollout" /\ frame'.nan) =>
          (pc' = "raised" /\ exc' = "ValueError" /\ mappo' = mappo)]_vars

\* ------------------------------------------------ SpecConstruct (C13)
\* Before the constructor has run there is no learner and there are no
\* networks.
NoMappo == <<>>
NoHeap == <<>>

\* The states gym.make and earlier use may have left the environment in.
EnvStates ==
    [steps : 0..EnvT, crashed : BOOLEAN, n : 1..MaxAgents, nan : {FALSE}]

InitConstruct ==
    /\ args \in [reward_type : {"regional_R", "global_R", "local_R", ""},
                 traffic_density : 0..4,
                 env : EnvStates]
    /\ ret = None
    /\ calls = 0
    /\ config = BaseConfig
    /\ pc = "call"
    /\ exc = ""
    /\ env = args.env
    /\ env_eval = EnvReset(1)
    /\ mappo = NoMappo
    /\ heap = NoHeap
    /\ rng = 0
    /\ frame = NoFrame
    /\ tr = NoTrain
    /\ ev = NoEval
    /\ model_dir = EmptyDir
    /\ models_out = EmptyDir

\* MAPPO.py:28-99, one call of MAPPO(env, ..., traffic_density, reward_type).
CallConstruct ==
    /\ calls = 0
    /\ IF ~traffic_density_ok(args.traffic_density)
          \/ ~reward_type_ok(args.reward_type)
       THEN /\ pc' = "raised"
            /\ exc' = "AssertionError"
            /\ UNCHANGED <<env, mappo, heap>>
       ELSE /\ \E e \in ResetStates :
                 /\ env' = e
                 /\ mappo' = NewMappo([config EXCEPT
                                  !.reward_type = args.reward_type], e)
            /\ heap' = NewHeap
            /\ pc' = "constructed"
            /\ exc' = exc
    /\ calls' = 1
    /\ UNCHANGED <<args, ret, config, env_eval, rng, frame, tr, ev,
                   model_dir, models_out>>

NextConstruct == CallConstruct
SpecConstruct == InitConstruct /\ [][NextConstruct]_vars

\* C13: constructing the learner with a reward_type other than
\* 'regional_R' or 'global_R' raises before the environment is reset and
\* before any learner state (networks, memory, counters) exists.
C13_BadRewardTypeFailsFirst ==
    (calls = 1 /\ args.reward_type \notin {"regional_R", "global_R"}) =>
        /\ pc = "raised"
        /\ exc = "AssertionError"
        /\ env = args.env
        /\ mappo = NoMappo
        /\ heap = NoHeap

\* The constructor was called with reward_type 'local_R' and a valid
\* traffic density on an environment that is in mid-episode, and raised.
C13_Witness ==
    /\ calls = 1
    /\ args.reward_type = "local_R"
    /\ args.traffic_density = 1
    /\ args.env.steps > 0
    /\ pc = "raised"
    /\ env.steps > 0

\* ------------------------------------------------ SpecClip (C15)
\* The ratio is swept over [0, 2] in steps of 1 / RatioSteps.
RatioSamples == {Rat(k, RatioSteps) : k \in 0..(2 * RatioSteps)}
AdvantageSamples == {One, I2R(-1), I2R(2)}
ClipSamples == {Rat(1, 5), Rat(1, 10)}

InitClip ==
    /\ args \in [ratio : RatioSamples, advantage : AdvantageSamples,
                 clip_param : ClipSamples]
    /\ ret = None
    /\ calls = 0
    /\ MainIdle

\* MAPPO.py:188-191 for one sample; ret holds the term.
CallClip ==
    /\ calls = 0
    /\ ret' = surrogate_term(args.ratio, args.advantage, args.clip_param)
    /\ calls' = 1
    /\ UNCHANGED <<args, main_vars>>

NextClip == CallClip
SpecClip == InitClip /\ [][NextClip]_vars

\* The scenario of the claim: advantage 1, epsilon 0.2.
ClipScenario ==
    calls = 1 /\ args.advantage = One /\ args.clip_param = Rat(1, 5)

\* C15 (as claimed): with advantage 1 and epsilon 0.2 the term is 1.2 for
\* every ratio above 1.2, 0.8 for every ratio below 0.8, and ratio * A in
\* between.
C15_ClipsBothSides ==
    ClipScenario =>
        /\ RLess(Rat(6, 5), args.ratio) => ret = Rat(6, 5)
        /\ RLess(args.ratio, Rat(4, 5)) => ret = Rat(4, 5)
        /\ (RLeq(Rat(4, 5), args.ratio) /\ RLeq(args.ratio, Rat(6, 5))) =>
              ret = RMul(args.ratio, args.advantage)

\* C15 (amended): with advantage 1 and epsilon 0.2 the term is 1.2 for
\* every ratio above 1.2 and ratio * A for every ratio up to 1.2; below 0.8
\* the clamp gives 0.8 but the minimum keeps the smaller unclipped
\* ratio * A.
C15_ClipsAboveOnly ==
    ClipScenario =>
        /\ RLess(Rat(6, 5), args.ratio) => ret = Rat(6, 5)
        /\ RLeq(args.ratio, Rat(6, 5)) =>
              ret = RMul(args.ratio, args.advantage)
        /\ RLess(args.ratio, Rat(4, 5)) =>
              /\ clamp(args.ratio, Rat(4, 5), Rat(6, 5)) = Rat(4, 5)
              /\ RLess(ret, Rat(4, 5))

\* Ratio 1/2, below the clip range: the term is 1/2, not 0.8.
C15_Witness ==
    /\ ClipScenario
    /\ args.ratio = Rat(1, 2)
    /\ ret = Rat(1, 2)

====
